---- MODULE Spec2Model ----
(***************************************************************************)
(* A model of generate.py: the Dockerfile matrix generator that reads the  *)
(* PYTHON_VERSION / NODE_VERSION declarations of every generated           *)
(* Dockerfile, groups the files by truncated version pairs and writes one  *)
(* Travis build stage per representative file.                             *)
(*                                                                         *)
(* Strings that the program takes apart or puts together (versions, tag    *)
(* keys, stage names) are sequences of one-character strings, so that      *)
(* str(), split('.'), slicing and join() are computed, not assumed.        *)
(* Words that the program only compares as a whole (ENV, PYTHON_VERSION)   *)
(* are one-symbol sequences.  A Python dict is a sequence of [k, v]        *)
(* entries in insertion order.                                             *)
(***************************************************************************)
EXTENDS Integers, Sequences, FiniteSets, TLC

\* ------------------------------------------------------------------ bounds
\* the largest number of Dockerfiles handed to travis_yaml_add_stages
MaxFiles == 2
\* the largest number of lines of a Dockerfile read line by line
MaxLines == 2
\* the largest number of upstream Dockerfiles of either repository
MaxUpstream == 2

\* ------------------------------------------------------------- sequences
Range(s) == { s[i] : i \in 1..Len(s) }

Reverse(s) == [ i \in 1..Len(s) |-> s[Len(s) + 1 - i] ]

\* s[:k] of Python for 0 <= k
Take(s, k) == SubSeq(s, 1, IF k < Len(s) THEN k ELSE Len(s))

RECURSIVE Join(_, _)
\* sep.join(parts)
Join(parts, sep) ==
    IF Len(parts) = 0 THEN <<>>
    ELSE IF Len(parts) = 1 THEN parts[1]
    ELSE parts[1] \o sep \o Join(Tail(parts), sep)

RECURSIVE SplitFrom(_, _, _, _)
SplitFrom(s, sep, i, cur) ==
    IF i > Len(s) THEN <<cur>>
    ELSE IF s[i] = sep THEN <<cur>> \o SplitFrom(s, sep, i + 1, <<>>)
    ELSE SplitFrom(s, sep, i + 1, Append(cur, s[i]))

\* s.split(sep) of Python for a one-character separator
Split(s, sep) == SplitFrom(s, sep, 1, <<>>)

\* ---------------------------------------------------------------- numbers
Digits == <<"0", "1", "2", "3", "4", "5", "6", "7", "8", "9">>

IsDigit(c) == \E d \in 1..Len(Digits) : Digits[d] = c

DigitVal(c) == (CHOOSE d \in 1..Len(Digits) : Digits[d] = c) - 1

RECURSIVE Dec(_)
\* str(n) for a natural number n
Dec(n) == IF n < 10 THEN <<Digits[n + 1]>>
          ELSE Dec(n \div 10) \o <<Digits[(n % 10) + 1]>>

RECURSIVE IntOf(_)
\* int(s) for a non-empty sequence of digits
IntOf(s) == IF Len(s) = 1 THEN DigitVal(s[1])
            ELSE 10 * IntOf(SubSeq(s, 1, Len(s) - 1)) + DigitVal(s[Len(s)])

\* ---------------------------------------------------------------- versions
\* Python's None, as the value of a version that was never declared.  A
\* packaging Version is its release tuple, which is never empty.
None == <<>>

Dot == "."

\* the text a Version accepts, restricted to release-only versions: one or
\* more dot-separated runs of digits
ValidVersion(tok) ==
    LET parts == Split(tok, Dot)
    IN  \A i \in 1..Len(parts) :
            /\ Len(parts[i]) > 0
            /\ \A j \in 1..Len(parts[i]) : IsDigit(parts[i][j])

\* Version(tok): the release tuple
Version(tok) ==
    LET parts == Split(tok, Dot)
    IN  [ i \in 1..Len(parts) |-> IntOf(parts[i]) ]

RECURSIVE StripZeros(_)
\* the release with its trailing zeros removed, as Version._key compares it
StripZeros(r) ==
    IF Len(r) > 0 /\ r[Len(r)] = 0 THEN StripZeros(SubSeq(r, 1, Len(r) - 1))
    ELSE r

\* str(version) with the trailing zeros of the release dropped
StrNormalized(version) ==
    IF version = None THEN <<"N", "o", "n", "e">>
    ELSE Join([ i \in 1..Len(StripZeros(version)) |-> Dec(version[i]) ], <<Dot>>)

\* str(version), of a Version or of None
Str(version) ==
    IF version = None THEN <<"N", "o", "n", "e">>
    ELSE Join([ i \in 1..Len(version) |-> Dec(version[i]) ], <<Dot>>)

RECURSIVE TupleLess(_, _)
\* a < b on tuples of integers
TupleLess(a, b) ==
    IF Len(b) = 0 THEN FALSE
    ELSE IF Len(a) = 0 THEN TRUE
    ELSE IF a[1] # b[1] THEN a[1] < b[1]
    ELSE TupleLess(Tail(a), Tail(b))

\* a == b on a Version or None each: None equals only None
VersionEq(a, b) ==
    IF a = None \/ b = None THEN a = b
    ELSE StripZeros(a) = StripZeros(b)

\* a < b is defined on two Versions only; on None it raises TypeError
VersionComparable(a, b) == a # None /\ b # None

VersionLess(a, b) == TupleLess(StripZeros(a), StripZeros(b))

\* ------------------------------------------------- get_versions_from_dockerfile
\* A line of a Dockerfile is the sequence of its whitespace-separated words,
\* the first one starting in column 0.
ENV == <<"ENV">>

PYTHON_VERSION == <<"PYTHON_VERSION">>

NODE_VERSION == <<"NODE_VERSION">>

\* line.startswith('ENV')
StartsWithENV(line) == Len(line) > 0 /\ line[1] = ENV

NoVersions == [err |-> "", python |-> None, node |-> None]

\* one turn of the loop over the lines: the versions so far and the line give
\* the versions after it, or the exception the line raises
ParseLine(versions, line) ==
    IF ~StartsWithENV(line) THEN versions
    ELSE IF Len(Tail(line)) # 2 THEN [versions EXCEPT !.err = "ValueError"]
    ELSE LET name == line[2]
             version == line[3]
         IN  IF name \notin {PYTHON_VERSION, NODE_VERSION} THEN versions
             ELSE IF ~ValidVersion(version)
                  THEN [versions EXCEPT !.err = "InvalidVersion"]
             ELSE IF name = PYTHON_VERSION
                  THEN [versions EXCEPT !.python = Version(version)]
             ELSE [versions EXCEPT !.node = Version(version)]

RECURSIVE ParseLines(_, _, _)
ParseLines(versions, lines, i) ==
    IF i > Len(lines) \/ versions.err # "" THEN versions
    ELSE ParseLines(ParseLine(versions, lines[i]), lines, i + 1)

\* the versions a Dockerfile declares, or the exception reading it raises
get_versions_from_dockerfile(lines) == ParseLines(NoVersions, lines, 1)

\* ------------------------------------------------------------- list.sort
\* The sort key of line 113 is the tuple (python_version, node_version).
\* Tuples compare by their first unequal element.
KeyComparable(a, b) ==
    IF ~VersionEq(a.python_version, b.python_version)
    THEN VersionComparable(a.python_version, b.python_version)
    ELSE IF ~VersionEq(a.node_version, b.node_version)
    THEN VersionComparable(a.node_version, b.node_version)
    ELSE TRUE

KeyLess(a, b) ==
    IF ~VersionEq(a.python_version, b.python_version)
    THEN VersionLess(a.python_version, b.python_version)
    ELSE IF ~VersionEq(a.node_version, b.node_version)
    THEN VersionLess(a.node_version, b.node_version)
    ELSE FALSE

RECURSIVE CountRun(_, _, _)
\* the length of the run that starts the list (it is at least 2 long and its
\* first two elements said whether it descends), or 0 when a comparison
\* raises
CountRun(s, k, desc) ==
    IF k >= Len(s) THEN k
    ELSE IF ~KeyComparable(s[k + 1], s[k]) THEN 0
    ELSE IF KeyLess(s[k + 1], s[k]) = desc THEN CountRun(s, k + 1, desc)
    ELSE k

RECURSIVE BinarySearch(_, _, _, _)
\* where the pivot goes among s[1..r-1]: the number of elements kept before
\* it, or -1 when a comparison raises (l and r count from 0, as in listsort)
BinarySearch(s, pivot, l, r) ==
    IF l >= r THEN l
    ELSE LET p == l + ((r - l) \div 2)
         IN  IF ~KeyComparable(pivot, s[p + 1]) THEN -1
             ELSE IF KeyLess(pivot, s[p + 1]) THEN BinarySearch(s, pivot, l, p)
             ELSE BinarySearch(s, pivot, p + 1, r)

RECURSIVE BinarySort(_, _)
\* s[1..start-1] is sorted; insert s[start], s[start+1], ... one by one
BinarySort(s, start) ==
    IF start > Len(s) THEN [ok |-> TRUE, list |-> s]
    ELSE LET at == BinarySearch(s, s[start], 0, start - 1)
         IN  IF at < 0 THEN [ok |-> FALSE, list |-> s]
             ELSE BinarySort(SubSeq(s, 1, at) \o <<s[start]>>
                                 \o SubSeq(s, at + 1, start - 1)
                                 \o SubSeq(s, start + 1, Len(s)),
                             start + 1)

\* list.sort(key=...) of CPython on a short list: the leading run, reversed
\* when it descends, then binary insertion of the rest.  ok is FALSE when a
\* comparison raised TypeError.
SortByVersion(s) ==
    IF Len(s) < 2 THEN [ok |-> TRUE, list |-> s]
    ELSE IF ~KeyComparable(s[2], s[1]) THEN [ok |-> FALSE, list |-> s]
    ELSE LET desc == KeyLess(s[2], s[1])
             n == CountRun(s, 2, desc)
         IN  IF n = 0 THEN [ok |-> FALSE, list |-> s]
             ELSE BinarySort((IF desc THEN Reverse(SubSeq(s, 1, n))
                                      ELSE SubSeq(s, 1, n))
                                 \o SubSeq(s, n + 1, Len(s)),
                             n + 1)

\* ------------------------------------------------------------------ dicts
\* key in d
HasKey(d, key) == \E i \in 1..Len(d) : d[i].k = key

\* d[key], for a key of d
Lookup(d, key) == d[CHOOSE i \in 1..Len(d) : d[i].k = key].v

\* d[key] = val: a key of d keeps its place, a new key goes last
SetItem(d, key, val) ==
    IF HasKey(d, key)
    THEN [ i \in 1..Len(d) |-> IF d[i].k = key THEN [k |-> key, v |-> val] ELSE d[i] ]
    ELSE Append(d, [k |-> key, v |-> val])

\* the values of a YAML document: a scalar, a mapping or a list
Scalar(s) == [scalar |-> s, map |-> <<>>, list |-> <<>>]

Map(entries) == [scalar |-> "", map |-> entries, list |-> <<>>]

List(items) == [scalar |-> "", map |-> <<>>, list |-> items]

\* ---------------------------------------------------------- strip_version
\* parts[:n] of Python for n < 0: all but the last -n parts
DropLast(parts, n) == Take(parts, IF Len(parts) + n > 0 THEN Len(parts) + n ELSE 0)

strip_version(version, n) ==
    IF n = 0 THEN Join(Split(Str(version), Dot), <<Dot>>)
    ELSE Join(DropLast(Split(Str(version), Dot), n), <<Dot>>)

\* the tag of a Dockerfile under one pair of offsets
TagKey(df, py_offset, node_offset) ==
    strip_version(df.python_version, py_offset) \o <<"-">>
        \o strip_version(df.node_version, node_offset)

\* -------------------------------------------------------- group_by_version
RECURSIVE GroupFrom(_, _, _, _, _)
GroupFrom(dfs, i, py_offset, node_offset, group) ==
    IF i > Len(dfs) THEN group
    ELSE LET key == TagKey(dfs[i], py_offset, node_offset)
         IN  GroupFrom(dfs, i + 1, py_offset, node_offset,
                       IF HasKey(group, key) THEN group
                       ELSE SetItem(group, key, dfs[i].dockerfile_path))

\* tag -> the first Dockerfile of the list that has it
group_by_version(dfs, py_offset, node_offset) ==
    GroupFrom(dfs, 1, py_offset, node_offset, <<>>)

\* ------------------------------------------------------ the loop over options
options == <<-2, -1, 0>>

\* itertools.product(options, options), in the order it yields its pairs
OffsetPairs ==
    [ t \in 1..(Len(options) * Len(options)) |->
        <<options[((t - 1) \div Len(options)) + 1],
          options[((t - 1) % Len(options)) + 1]>> ]

RECURSIVE AddTags(_, _, _)
\* lines 139-144: every tag of one group goes to the end of the list of its
\* Dockerfile
AddTags(tags, group, i) ==
    IF i > Len(group) THEN tags
    ELSE LET tag == group[i].k
             dockerfile == group[i].v
         IN  AddTags(IF ~HasKey(tags, dockerfile)
                     THEN SetItem(tags, dockerfile, <<tag>>)
                     ELSE SetItem(tags, dockerfile,
                                  Append(Lookup(tags, dockerfile), tag)),
                     group, i + 1)

\* -------------------------------------------------------- make_build_stage
\* A path is the sequence of its segments; dirname drops the last one.
dirname(path) == SubSeq(path, 1, Len(path) - 1)

Line(cmd, arg) == [cmd |-> cmd, arg |-> arg]

Preamble ==
    << Line("set -e", <<>>),
       Line("echo $DOCKER_PASSWORD | docker login", <<>>),
       Line("# run tests", <<>>) >>

\* the stage with a tag line and a push line for each tag in turn
make_build_stage_interleaved(dockerfile_path, tags) ==
    [ stage |-> "Image Builds",
      name |-> Join(tags, <<",", " ">>),
      if |-> "type NOT IN (cron)",
      script |-> Preamble
                 \o << Line("travis_retry docker build -t austinpray/python-node",
                            dirname(dockerfile_path)) >>
                 \o [ i \in 1..(2 * Len(tags)) |->
                        IF i % 2 = 1
                        THEN Line("docker tag austinpray/python-node austinpray/python-node:",
                                  tags[(i + 1) \div 2])
                        ELSE Line("[ $TRAVIS_BRANCH = master ] && docker push austinpray/python-node:",
                                  tags[i \div 2]) ] ]

make_build_stage(dockerfile_path, tags) ==
    [ stage |-> "Image Builds",
      name |-> Join(tags, <<",", " ">>),
      if |-> "type NOT IN (cron)",
      script |-> Preamble
                 \o << Line("travis_retry docker build -t austinpray/python-node",
                            dirname(dockerfile_path)) >>
                 \o [ i \in 1..Len(tags) |->
                        Line("docker tag austinpray/python-node austinpray/python-node:",
                             tags[i]) ]
                 \o [ i \in 1..Len(tags) |->
                        Line("[ $TRAVIS_BRANCH = master ] && docker push austinpray/python-node:",
                             tags[i]) ] ]

\* the stages of the tags, in the order of the tags
StagesOf(tags) == [ i \in 1..Len(tags) |-> make_build_stage(tags[i].k, tags[i].v) ]

\* only the include list of the jobs is set, the other entries of the jobs stay
AddStagesKeepingJobs(doc, tags) ==
    SetItem(doc, "jobs",
            Map(SetItem(IF HasKey(doc, "jobs") THEN Lookup(doc, "jobs").map ELSE <<>>,
                        "include", List(StagesOf(tags)))))

\* the stages are added to the include list that is there
AddStagesAppending(doc, tags) ==
    SetItem(doc, "jobs",
            Map(<< [ k |-> "include",
                     v |-> List((IF HasKey(doc, "jobs") /\ HasKey(Lookup(doc, "jobs").map, "include")
                                 THEN Lookup(Lookup(doc, "jobs").map, "include").list
                                 ELSE <<>>)
                                \o StagesOf(tags)) ] >>))

\* lines 146-152: the jobs of the document become the stages of the tags
AddStages(doc, tags) ==
    SetItem(doc, "jobs",
            Map(<< [k |-> "include", v |-> List(StagesOf(tags))] >>))

\* ---------------------------------------------------- travis_yaml_add_stages
\* sorted ascending and left so
SortAscending(dfs) ==
    LET sorted == SortByVersion(dfs)
    IN  [ok |-> sorted.ok, list |-> IF sorted.ok THEN sorted.list ELSE dfs]

\* lines 113-114: sorted ascending, then reversed
SortDescending(dfs) ==
    LET sorted == SortByVersion(dfs)
    IN  [ok |-> sorted.ok, list |-> IF sorted.ok THEN Reverse(sorted.list) ELSE dfs]

\* ------------------------------------------------------------------ inputs
\* the version texts found in the Dockerfiles: full releases, numbers of two
\* digits, one release of a single part
PyTexts == { <<"3", ".", "9", ".", "1">>, <<"3", ".", "1", "0", ".", "0">> }

NodeTexts == { <<"1", "4", ".", "2", ".", "0">>, <<"1", "4", ".", "1", "5", ".", "0">>, <<"1", "4">> }

\* no declaration of the version in the file
Absent == <<>>

FromLine == << <<"FROM">>, <<"buildpack-deps:stretch">> >>

\* a Dockerfile as generate_dockerfiles writes it, with the declarations of
\* the versions that its two sources hold
DockerfileOf(py, node) ==
    <<FromLine>>
    \o (IF py = Absent THEN <<>> ELSE << <<ENV, PYTHON_VERSION, py>> >>)
    \o (IF node = Absent THEN <<>> ELSE << <<ENV, NODE_VERSION, node>> >>)

\* a Dockerfile with an ENV line of the form ENV key=value
KeyValueDockerfile ==
    << FromLine, <<ENV, <<"LANG=C.UTF-8">>>>,
       <<ENV, PYTHON_VERSION, <<"3", ".", "9", ".", "1">>>> >>

Dockerfiles ==
    { DockerfileOf(py, node) : py \in PyTexts \cup {Absent}, node \in NodeTexts \cup {Absent} }
    \cup {KeyValueDockerfile}

TagDirs == <<"a", "b", "c", "d">>

\* dockerfiles/<tag>/Dockerfile; a segment of a path is a sequence of symbols
TagPath(tag) == << <<"dockerfiles">>, tag, <<"Dockerfile">> >>

PathOf(i) == TagPath(<<TagDirs[i]>>)

OldStage == make_build_stage(TagPath(<<"old">>), << <<"o", "l", "d">> >>)

\* the .travis.yml documents the stages are added to
Documents ==
    { << [k |-> "language", v |-> Scalar("python")] >>,
      << [k |-> "jobs", v |-> Map(<< [k |-> "include", v |-> List(<<OldStage>>)],
                                     [k |-> "fast_finish", v |-> Scalar("true")] >>)],
         [k |-> "services", v |-> List(<<>>)] >> }

\* --------------------------------------------------------------- the state
VARIABLES
    \* one call of travis_yaml_add_stages
    disk,             \* path -> lines of the Dockerfile at that path
    dockerfile_paths, \* the argument of travis_yaml_add_stages
    travis_dict,      \* the document, changed in place
    input_dict,       \* the document as it was handed to the first call
    pc,               \* where the call is, or the exception it raised
    dockerfiles,      \* the list of lines 105-114
    groups,           \* the groups made so far, one per pair of offsets
    dockerfile_tags,  \* Dockerfile -> its tags
    call,             \* 1 in the first call, 2 in the call on its result
    first,            \* what the first call left: its tags and its document
    \* one call of get_versions_from_dockerfile, line by line
    df_lines,         \* the lines of the Dockerfile
    line_no,          \* the number of lines read
    versions,         \* the versions found, and the exception raised if any
    returned,         \* the call has returned versions
    \* one run of the script
    main_pc,          \* where the run is, "done", or "aborted"
    raised,           \* the exception that aborted the run
    python_upstream,  \* the stretch Dockerfiles of docker-library/python
    node_upstream,    \* the stretch Dockerfiles of nodejs/docker-node
    fetched,          \* the repositories unpacked under repos/
    generated,        \* path -> lines of the Dockerfiles under dockerfiles/
    travis_yml,       \* .travis.yml: whether it is YAML, and its document
    travis_yml_start  \* .travis.yml as it was when the run began

callVars == <<disk, dockerfile_paths, travis_dict, input_dict, pc, dockerfiles, groups,
              dockerfile_tags, call, first>>

readVars == <<df_lines, line_no, versions, returned>>

mainVars == <<main_pc, raised, python_upstream, node_upstream, fetched, generated,
              travis_yml, travis_yml_start>>

vars == <<callVars, readVars, mainVars>>

\* the parts of the state that a specification leaves alone
NoCall ==
    /\ disk = <<>>
    /\ dockerfile_paths = <<>>
    /\ travis_dict = <<>>
    /\ input_dict = <<>>
    /\ pc = "idle"
    /\ dockerfiles = <<>>
    /\ groups = <<>>
    /\ dockerfile_tags = <<>>
    /\ call = 0
    /\ first = [tags |-> <<>>, doc |-> <<>>]

NoRead ==
    /\ df_lines = <<>>
    /\ line_no = 0
    /\ versions = NoVersions
    /\ returned = FALSE

NoRun ==
    /\ main_pc = "idle"
    /\ raised = ""
    /\ python_upstream = <<>>
    /\ node_upstream = <<>>
    /\ fetched = <<>>
    /\ generated = <<>>
    /\ travis_yml = [yaml |-> TRUE, doc |-> <<>>]
    /\ travis_yml_start = [yaml |-> TRUE, doc |-> <<>>]

Init ==
    /\ \E n \in 0..MaxFiles :
         /\ dockerfile_paths = [ i \in 1..n |-> PathOf(i) ]
         /\ \E content \in [1..n -> Dockerfiles] :
              disk = [ i \in 1..n |-> [k |-> PathOf(i), v |-> content[i]] ]
    /\ travis_dict \in Documents
    /\ input_dict = travis_dict
    /\ pc = "read"
    /\ dockerfiles = <<>>
    /\ groups = <<>>
    /\ dockerfile_tags = <<>>
    /\ call = 1
    /\ first = [tags |-> <<>>, doc |-> <<>>]
    /\ NoRead
    /\ NoRun

\* lines 106-112, one Dockerfile: its versions are read and it joins the list
ReadDockerfile ==
    /\ pc = "read"
    /\ Len(dockerfiles) < Len(dockerfile_paths)
    /\ LET dockerfile_path == dockerfile_paths[Len(dockerfiles) + 1]
           found == get_versions_from_dockerfile(Lookup(disk, dockerfile_path))
       IN  IF found.err # ""
           THEN /\ pc' = found.err
                /\ UNCHANGED dockerfiles
           ELSE /\ dockerfiles' = Append(dockerfiles,
                                         [ dockerfile_path |-> dockerfile_path,
                                           python_version |-> found.python,
                                           node_version |-> found.node ])
                /\ UNCHANGED pc
    /\ UNCHANGED <<disk, dockerfile_paths, travis_dict, input_dict, groups,
                   dockerfile_tags, call, first>>
    /\ UNCHANGED <<readVars, mainVars>>

\* lines 113-114
SortDockerfiles ==
    /\ pc = "read"
    /\ Len(dockerfiles) = Len(dockerfile_paths)
    /\ LET sorted == SortDescending(dockerfiles)
       IN  /\ dockerfiles' = sorted.list
           /\ pc' = IF sorted.ok THEN "group" ELSE "TypeError"
    /\ UNCHANGED <<disk, dockerfile_paths, travis_dict, input_dict, groups,
                   dockerfile_tags, call, first>>
    /\ UNCHANGED <<readVars, mainVars>>

\* lines 138-144, one pair of offsets: its group is made and its tags are added
GroupOffsets ==
    /\ pc = "group"
    /\ Len(groups) < Len(OffsetPairs)
    /\ LET t == OffsetPairs[Len(groups) + 1]
           group == group_by_version(dockerfiles, t[1], t[2])
       IN  /\ groups' = Append(groups, group)
           /\ dockerfile_tags' = AddTags(dockerfile_tags, group, 1)
    /\ UNCHANGED <<disk, dockerfile_paths, travis_dict, input_dict, pc, dockerfiles,
                   call, first>>
    /\ UNCHANGED <<readVars, mainVars>>

\* lines 146-152
InstallStages ==
    /\ pc = "group"
    /\ Len(groups) = Len(OffsetPairs)
    /\ travis_dict' = AddStages(travis_dict, dockerfile_tags)
    /\ pc' = "done"
    /\ UNCHANGED <<disk, dockerfile_paths, input_dict, dockerfiles, groups,
                   dockerfile_tags, call, first>>
    /\ UNCHANGED <<readVars, mainVars>>

\* the function is called again, on the document it returned and the same paths
CallAgain ==
    /\ pc = "done"
    /\ call = 1
    /\ main_pc = "idle"
    /\ call' = 2
    /\ first' = [tags |-> dockerfile_tags, doc |-> travis_dict]
    /\ pc' = "read"
    /\ dockerfiles' = <<>>
    /\ groups' = <<>>
    /\ dockerfile_tags' = <<>>
    /\ UNCHANGED <<disk, dockerfile_paths, travis_dict, input_dict>>
    /\ UNCHANGED <<readVars, mainVars>>

Next ==
    \/ ReadDockerfile
    \/ SortDockerfiles
    \/ GroupOffsets
    \/ InstallStages
    \/ CallAgain

Spec == Init /\ [][Next]_vars

\* ------------------------------------------------------ notions of the claims
\* the Dockerfiles were read, sorted and all nine groups were made
AllGrouped == pc \in {"group", "done"} /\ Len(groups) = Len(OffsetPairs)

\* the positions in the sorted list of the Dockerfiles that have the tag key
\* under the g-th pair of offsets
Candidates(g, key) ==
    { i \in 1..Len(dockerfiles) :
        TagKey(dockerfiles[i], OffsetPairs[g][1], OffsetPairs[g][2]) = key }

SamePair(a, b) ==
    /\ a.python_version = b.python_version
    /\ a.node_version = b.node_version

\* the [k, v] entries of all the groups made so far
GroupEntries == UNION { Range(groups[g]) : g \in 1..Len(groups) }

NoRepeats(s) == \A i, j \in 1..Len(s) : s[i] = s[j] => i = j

ThreeParts(df) == Len(df.python_version) = 3 /\ Len(df.node_version) = 3

\* the stages of the document, when it has jobs with an include list
Included(doc) == Lookup(Lookup(doc, "jobs").map, "include").list

\* the tag keys named in the example
TAG_3_14 == <<"3", "-", "1", "4">>

TAG_39_14 == <<"3", ".", "9", "-", "1", "4">>

TAG_FULL_A == <<"3", ".", "9", ".", "1", "-", "1", "4", ".", "2", ".", "0">>

TAG_FULL_B == <<"3", ".", "9", ".", "1", "-", "1", "4", ".", "1", "5", ".", "0">>

\* the Dockerfiles A = (python 3.9.1, node 14.2.0) and B = (python 3.9.1,
\* node 14.15.0) of the example
ExampleA == DockerfileOf(<<"3", ".", "9", ".", "1">>, <<"1", "4", ".", "2", ".", "0">>)

ExampleB == DockerfileOf(<<"3", ".", "9", ".", "1">>, <<"1", "4", ".", "1", "5", ".", "0">>)

ExampleAB == Len(disk) = 2 /\ { disk[1].v, disk[2].v } = { ExampleA, ExampleB }

PathWith(content) == disk[CHOOSE i \in 1..Len(disk) : disk[i].v = content].k

\* ---------------------------------------------------------------------- C1
\* C1: under every pair of offsets, every tag key that some Dockerfile has is
\* recorded, and the file recorded under it is a Dockerfile with that key
\* whose (python, node) version pair no other Dockerfile with the key
\* exceeds; of the Dockerfiles with the very same version pair only the first
\* of the descending list is recorded.  For A and B: under (-2,-2) the key
\* 3-14 goes to B alone and is no tag of A, under (0,0) 3.9.1-14.2.0 goes to A
\* and 3.9.1-14.15.0 to B.
C1_HighestVersionIsRecorded ==
    /\ \A g \in 1..Len(groups) :
         /\ \A i \in 1..Len(dockerfiles) :
              HasKey(groups[g],
                     TagKey(dockerfiles[i], OffsetPairs[g][1], OffsetPairs[g][2]))
         /\ \A e \in 1..Len(groups[g]) :
              \E r \in Candidates(g, groups[g][e].k) :
                 /\ dockerfiles[r].dockerfile_path = groups[g][e].v
                 /\ \A c \in Candidates(g, groups[g][e].k) :
                      ~KeyLess(dockerfiles[r], dockerfiles[c])
                 /\ \A c \in 1..Len(dockerfiles) :
                      SamePair(dockerfiles[c], dockerfiles[r]) => r <= c
    /\ (ExampleAB /\ AllGrouped) =>
         /\ groups[1] = << [k |-> TAG_3_14, v |-> PathWith(ExampleB)] >>
         /\ TAG_3_14 \notin Range(Lookup(dockerfile_tags, PathWith(ExampleA)))
         /\ Len(groups[9]) = 2
         /\ Lookup(groups[9], TAG_FULL_A) = PathWith(ExampleA)
         /\ Lookup(groups[9], TAG_FULL_B) = PathWith(ExampleB)

\* C1 witness: A and B were grouped under all nine pairs of offsets
C1_Witness == ExampleAB /\ AllGrouped /\ pc = "done"

\* ---------------------------------------------------------------------- C2
\* C2: the tag list of no Dockerfile holds a tag key twice
C2_NoRepeatedTag ==
    \A i \in 1..Len(dockerfile_tags) : NoRepeats(dockerfile_tags[i].v)

\* ---------------------------------------------------------------------- C3
\* C3: when the stages are installed, a Dockerfile has a stage if and only if
\* some group records it, it has one stage only, and the tags of its stage are
\* the keys the groups record for it, each once, in the order the groups were
\* made
C3_OneStagePerRepresentative ==
    pc = "done" =>
        LET stages == Included(travis_dict)
            firstAt(file, key) ==
                CHOOSE g \in 1..Len(groups) :
                    /\ [k |-> key, v |-> file] \in Range(groups[g])
                    /\ \A h \in 1..(g - 1) : [k |-> key, v |-> file] \notin Range(groups[h])
        IN  /\ { dockerfile_tags[i].k : i \in 1..Len(dockerfile_tags) }
                 = { x.v : x \in GroupEntries }
            /\ NoRepeats([ i \in 1..Len(dockerfile_tags) |-> dockerfile_tags[i].k ])
            /\ Len(stages) = Len(dockerfile_tags)
            /\ \A i \in 1..Len(dockerfile_tags) :
                 LET file == dockerfile_tags[i].k
                     tags == dockerfile_tags[i].v
                 IN  /\ stages[i] = make_build_stage(file, tags)
                     /\ Range(tags) = { x.k : x \in { y \in GroupEntries : y.v = file } }
                     /\ NoRepeats(tags)
                     /\ \A a, b \in 1..Len(tags) :
                          a < b => firstAt(file, tags[a]) <= firstAt(file, tags[b])

\* ---------------------------------------------------------------------- C4
\* C4: the script of every stage is the three lines of the preamble, one
\* build line on the directory of the Dockerfile, one tag line per tag in the
\* order of the tags, one push line per tag in the order of the tags, and its
\* name is the tags joined by ", ".  The tags 3.9-14 and 3.9.1-14.2.0 give two
\* tag lines and two push lines in that order.
C4_StageScriptShape ==
    /\ pc = "done" =>
         \A i \in 1..Len(dockerfile_tags) :
            LET st == Included(travis_dict)[i]
                file == dockerfile_tags[i].k
                tags == dockerfile_tags[i].v
                n == Len(tags)
            IN  /\ Len(st.script) = 4 + 2 * n
                /\ SubSeq(st.script, 1, 3) = Preamble
                /\ st.script[4].cmd = "travis_retry docker build -t austinpray/python-node"
                /\ Append(st.script[4].arg, file[Len(file)]) = file
                /\ \A j \in 1..n :
                     /\ st.script[4 + j] =
                          Line("docker tag austinpray/python-node austinpray/python-node:",
                               tags[j])
                     /\ st.script[4 + n + j] =
                          Line("[ $TRAVIS_BRANCH = master ] && docker push austinpray/python-node:",
                               tags[j])
                /\ st.name = Join(tags, <<",", " ">>)
    /\ LET st == make_build_stage(PathOf(1), <<TAG_39_14, TAG_FULL_A>>)
       IN  /\ Len(st.script) = 8
           /\ <<st.script[5].arg, st.script[6].arg>> = <<TAG_39_14, TAG_FULL_A>>
           /\ <<st.script[7].arg, st.script[8].arg>> = <<TAG_39_14, TAG_FULL_A>>
           /\ st.script[5].cmd = st.script[6].cmd
           /\ st.script[7].cmd = st.script[8].cmd
           /\ st.script[5].cmd # st.script[7].cmd
           /\ st.name = TAG_39_14 \o <<",", " ">> \o TAG_FULL_A

\* C4 witness: stages are installed, one of them for a Dockerfile with
\* several tags
C4_Witness ==
    /\ pc = "done"
    /\ \E i \in 1..Len(dockerfile_tags) : Len(dockerfile_tags[i].v) >= 2

\* ---------------------------------------------------------------------- C5
\* the entries of a dict but the one of the key, in their order
Without(d, key) == SelectSeq(d, LAMBDA e : e.k # key)

\* C5 as claimed: the include list of the jobs is the list of the stages, and
\* every other entry of the document handed in, at the top and under its
\* jobs, is in the document returned
C5_OtherEntriesKept ==
    pc = "done" =>
        /\ Included(travis_dict) = StagesOf(dockerfile_tags)
        /\ Without(travis_dict, "jobs") = Without(input_dict, "jobs")
        /\ HasKey(input_dict, "jobs") =>
             \A e \in Range(Without(Lookup(input_dict, "jobs").map, "include")) :
                 e \in Range(Lookup(travis_dict, "jobs").map)

\* C5 amended: the jobs of the document returned hold the include list of the
\* stages, in the order of dockerfile_tags, and nothing else; the other
\* entries of the top of the document are as they were, in their order, and
\* jobs is where it was or, when it was not there, last
C5_JobsReplaced ==
    pc = "done" =>
        /\ Lookup(travis_dict, "jobs")
             = Map(<< [k |-> "include", v |-> List(StagesOf(dockerfile_tags))] >>)
        /\ Without(travis_dict, "jobs") = Without(input_dict, "jobs")
        /\ Len(travis_dict) = Len(Without(input_dict, "jobs")) + 1
        /\ \A i \in 1..Len(input_dict) : input_dict[i].k = travis_dict[i].k

\* C5 witness: the stages were installed in a document that had other entries
\* under its jobs and beside them
C5_Witness ==
    /\ pc = "done"
    /\ call = 1
    /\ HasKey(input_dict, "jobs")
    /\ Len(Lookup(input_dict, "jobs").map) > 1
    /\ Len(input_dict) > 1
    /\ Len(dockerfile_tags) > 0

\* ---------------------------------------------------------------------- C7
NoneText == <<"N", "o", "n", "e">>

\* C7 as claimed: the sort raises nothing, also when some Dockerfiles have a
\* version and others have none; and once the nine groups are made, under
\* every pair of offsets a Dockerfile without a version has a recorded key
\* with None in the place of that version, one entry for all the Dockerfiles
\* that share it
C7_NullVersionsParticipate ==
    /\ pc # "TypeError"
    /\ AllGrouped =>
         \A g \in 1..Len(groups) : \A i \in 1..Len(dockerfiles) :
            LET t == OffsetPairs[g]
                py == dockerfiles[i].python_version
                node == dockerfiles[i].node_version
                key == (IF py = None THEN NoneText ELSE strip_version(py, t[1]))
                       \o <<"-">>
                       \o (IF node = None THEN NoneText ELSE strip_version(node, t[2]))
            IN  Cardinality({ e \in 1..Len(groups[g]) : groups[g][e].k = key }) = 1

\* ---------------------------------------------------------------------- C9
\* C9: the call on the same paths and on the document that the first call
\* returned raises nothing and ends with the same tags, Dockerfile by
\* Dockerfile and tag by tag, and with the same document
C9_SecondCallChangesNothing ==
    call = 2 =>
        /\ pc \in {"read", "group", "done"}
        /\ pc = "done" =>
             /\ dockerfile_tags = first.tags
             /\ travis_dict = first.doc

\* C9 witness: the second call is done, on several Dockerfiles with stages
C9_Witness ==
    /\ call = 2
    /\ pc = "done"
    /\ Len(dockerfile_tags) >= 2
    /\ HasKey(input_dict, "jobs")

\* --------------------------------------------------------------------- C10
\* C10: when every version of every Dockerfile has three parts, no tag key is
\* among the tags of two Dockerfiles, and no two installed stages have a tag
\* line or a push line for the same tag
C10_NoTagOfTwoDockerfiles ==
    (\A i \in 1..Len(dockerfiles) : ThreeParts(dockerfiles[i])) =>
        /\ \A i, j \in 1..Len(dockerfile_tags) :
             i # j => Range(dockerfile_tags[i].v) \cap Range(dockerfile_tags[j].v) = {}
        /\ pc = "done" =>
             \A i, j \in 1..Len(Included(travis_dict)) :
                i # j =>
                    LET tagged(st) == { st.script[l].arg : l \in 5..Len(st.script) }
                    IN  tagged(Included(travis_dict)[i])
                            \cap tagged(Included(travis_dict)[j]) = {}

\* C10 witness: two Dockerfiles with versions of three parts have their tags
C10_Witness ==
    /\ pc = "done"
    /\ Len(dockerfiles) >= 2
    /\ \A i \in 1..Len(dockerfiles) : ThreeParts(dockerfiles[i])
    /\ Len(dockerfile_tags) >= 2

\* ------------------------------------ get_versions_from_dockerfile, by line
\* the lines a Dockerfile is made of
Lines ==
    { FromLine,
      <<>>,
      <<ENV, PYTHON_VERSION, <<"3", ".", "9", ".", "1">>>>,
      <<ENV, PYTHON_VERSION, <<"3", ".", "1", "0", ".", "0">>>>,
      <<ENV, NODE_VERSION, <<"1", "4", ".", "2", ".", "0">>>>,
      <<ENV, PYTHON_VERSION, <<"latest">>>>,
      <<ENV, <<"LANG">>, <<"C.UTF-8">>>>,
      <<ENV, <<"LANG=C.UTF-8">>>>,
      <<ENV, <<"GPG_KEYS">>, <<"A035C8C1">>, <<"E3FF2839">>>>,
      << <<"RUN">>, <<"echo">>, ENV >> }

InitRead ==
    /\ df_lines \in UNION { [1..n -> Lines] : n \in 0..MaxLines }
    /\ line_no = 0
    /\ versions = NoVersions
    /\ returned = FALSE
    /\ NoCall
    /\ NoRun

\* lines 78-84: the next line of the file
ReadLine ==
    /\ ~returned
    /\ versions.err = ""
    /\ line_no < Len(df_lines)
    /\ versions' = ParseLine(versions, df_lines[line_no + 1])
    /\ line_no' = line_no + 1
    /\ UNCHANGED <<df_lines, returned>>
    /\ UNCHANGED <<callVars, mainVars>>

\* line 85
ReturnVersions ==
    /\ ~returned
    /\ versions.err = ""
    /\ line_no = Len(df_lines)
    /\ returned' = TRUE
    /\ UNCHANGED <<df_lines, line_no, versions>>
    /\ UNCHANGED <<callVars, mainVars>>

NextRead ==
    \/ ReadLine
    \/ ReturnVersions

SpecRead == InitRead /\ [][NextRead]_vars

\* ---------------------------------------------------------------------- C8
\* the line declares the name: ENV <name> ...
Declares(line, name) == StartsWithENV(line) /\ Len(line) >= 2 /\ line[2] = name

\* the version of the last declaration of the name among the lines, or None
LastDeclared(lines, name) ==
    LET at == { i \in 1..Len(lines) : Declares(lines[i], name) }
    IN  IF at = {} THEN None
        ELSE Version(lines[CHOOSE i \in at : \A j \in at : j <= i][3])

\* C8 as claimed: when every declaration of PYTHON_VERSION or NODE_VERSION
\* read so far is ENV, the name and a version, no exception was raised,
\* whatever the other ENV lines are, and the versions are those of the last
\* declaration of either name, None without one
C8_OtherEnvLinesIgnored ==
    LET read == SubSeq(df_lines, 1, line_no)
    IN  (\A i \in 1..Len(read) :
            \A name \in {PYTHON_VERSION, NODE_VERSION} :
                Declares(read[i], name) => Len(read[i]) = 3 /\ ValidVersion(read[i][3]))
        => /\ versions.err = ""
           /\ versions.python = LastDeclared(read, PYTHON_VERSION)
           /\ versions.node = LastDeclared(read, NODE_VERSION)

\* ------------------------------------------------------------------- main
\* the stretch Dockerfiles of the two repositories, each under the directory
\* of its version
PythonDockerfiles ==
    { [dir |-> <<"3.9">>,
       lines |-> <<FromLine, <<ENV, <<"LANG">>, <<"C.UTF-8">>>>, <<ENV, PYTHON_VERSION, <<"3", ".", "9", ".", "1">>>>>>],
      [dir |-> <<"3.10">>,
       lines |-> <<FromLine, <<ENV, <<"LANG">>, <<"C.UTF-8">>>>, <<ENV, PYTHON_VERSION, <<"3", ".", "1", "0", ".", "0">>>>>>],
      [dir |-> <<"3.6">>,
       lines |-> <<FromLine, <<ENV, PYTHON_VERSION, <<"3", ".", "6", ".", "1", "2">>>>>>] }

NodeDockerfiles ==
    { [dir |-> <<"14">>, lines |-> <<FromLine, <<ENV, NODE_VERSION, <<"1", "4", ".", "1", "5", ".", "0">>>>>>],
      [dir |-> <<"12">>, lines |-> <<FromLine, <<ENV, NODE_VERSION, <<"1", "4", ".", "2", ".", "0">>>>>>],
      [dir |-> <<"15">>,
       lines |-> <<FromLine, <<ENV, <<"NODE_ENV=production">>>>, <<ENV, NODE_VERSION, <<"1", "4", ".", "1", "5", ".", "0">>>>>>] }

\* the lists of at most MaxUpstream different elements of the set
ListsOf(S) ==
    { l \in UNION { [1..n -> S] : n \in 0..MaxUpstream } :
        \A i, j \in 1..Len(l) : l[i] = l[j] => i = j }

InitMain ==
    /\ main_pc = "node_version"
    /\ raised = ""
    /\ python_upstream \in ListsOf(PythonDockerfiles)
    /\ node_upstream \in ListsOf(NodeDockerfiles)
    /\ fetched = <<>>
    /\ generated = <<>>
    /\ travis_yml \in { [yaml |-> TRUE, doc |-> d] : d \in Documents }
                      \cup { [yaml |-> FALSE, doc |-> <<>>] }
    /\ travis_yml_start = travis_yml
    /\ NoCall
    /\ NoRead

\* lines 28-35: the two calls of get_repo_version when the module is loaded,
\* answered with status 200
GetRepoVersion ==
    /\ main_pc \in {"node_version", "python_version"}
    /\ main_pc' = IF main_pc = "node_version" THEN "python_version" ELSE "fetch"
    /\ UNCHANGED <<raised, python_upstream, node_upstream, fetched, generated,
                   travis_yml, travis_yml_start>>
    /\ UNCHANGED <<callVars, readVars>>

\* lines 22-23: any other status
GetRepoVersionFails ==
    /\ main_pc \in {"node_version", "python_version"}
    /\ main_pc' = "aborted"
    /\ raised' = "RuntimeError"
    /\ UNCHANGED <<python_upstream, node_upstream, fetched, generated,
                   travis_yml, travis_yml_start>>
    /\ UNCHANGED <<callVars, readVars>>

Repos == <<"docker-node", "python">>

\* lines 42-48, one repository: its archive is retrieved and unpacked
FetchRepo ==
    /\ main_pc = "fetch"
    /\ fetched' = Append(fetched, Repos[Len(fetched) + 1])
    /\ main_pc' = IF Len(fetched') = Len(Repos) THEN "generate" ELSE "fetch"
    /\ UNCHANGED <<raised, python_upstream, node_upstream, generated,
                   travis_yml, travis_yml_start>>
    /\ UNCHANGED <<callVars, readVars>>

\* line 47: urlretrieve raises
FetchRepoFails ==
    /\ main_pc = "fetch"
    /\ main_pc' = "aborted"
    /\ raised' = "URLError"
    /\ UNCHANGED <<python_upstream, node_upstream, fetched, generated,
                   travis_yml, travis_yml_start>>
    /\ UNCHANGED <<callVars, readVars>>

\* the number of pairs of itertools.product in generate_dockerfiles
Pairs == Len(python_upstream) * Len(node_upstream)

\* the lines that include_dockerfile copies: the ENV lines are among them
include_dockerfile(lines) == lines

\* lines 156-176, one pair (the pairs come with the python Dockerfiles outside
\* and the node Dockerfiles inside): dockerfiles/<tag>/Dockerfile is written
GenerateDockerfile ==
    /\ main_pc = "generate"
    /\ Len(generated) < Pairs
    /\ LET python == python_upstream[(Len(generated) \div Len(node_upstream)) + 1]
           node == node_upstream[(Len(generated) % Len(node_upstream)) + 1]
           tag == python.dir \o <<"-">> \o node.dir
       IN  generated' =
               SetItem(generated, TagPath(tag),
                       << << <<"#">>, <<"generated">> >>, FromLine >>
                       \o include_dockerfile(python.lines)
                       \o include_dockerfile(node.lines)
                       \o << << <<"CMD">>, <<"[python3]">> >> >>)
    /\ UNCHANGED <<main_pc, raised, python_upstream, node_upstream, fetched,
                   travis_yml, travis_yml_start>>
    /\ UNCHANGED <<callVars, readVars>>

\* the exceptions that travis_yaml_add_stages raises
Exceptions == {"ValueError", "InvalidVersion", "TypeError"}

\* lines 64-68, after the last pair: .travis.yml is loaded, the Dockerfiles
\* under dockerfiles/ are listed and travis_yaml_add_stages is called on them
\* (ReadDockerfile, SortDockerfiles, GroupOffsets and InstallStages are its
\* steps); a file that is no YAML ends the run
LoadTravisYaml ==
    /\ main_pc = "generate"
    /\ Len(generated) = Pairs
    /\ IF ~travis_yml.yaml
       THEN /\ main_pc' = "aborted"
            /\ raised' = "YAMLError"
            /\ UNCHANGED callVars
       ELSE /\ main_pc' = "add_stages"
            /\ UNCHANGED raised
            /\ disk' = generated
            /\ dockerfile_paths' = [ i \in 1..Len(generated) |-> generated[i].k ]
            /\ travis_dict' = travis_yml.doc
            /\ input_dict' = travis_yml.doc
            /\ pc' = "read"
            /\ call' = 1
            /\ UNCHANGED <<dockerfiles, groups, dockerfile_tags, first>>
    /\ UNCHANGED <<python_upstream, node_upstream, fetched, generated, travis_yml,
                   travis_yml_start>>
    /\ UNCHANGED readVars

\* an exception of travis_yaml_add_stages is caught nowhere: it ends the run
RaiseFromAddStages ==
    /\ main_pc = "add_stages"
    /\ pc \in Exceptions
    /\ main_pc' = "aborted"
    /\ raised' = pc
    /\ UNCHANGED <<python_upstream, node_upstream, fetched, generated, travis_yml,
                   travis_yml_start>>
    /\ UNCHANGED <<callVars, readVars>>

\* lines 70-72: the document that travis_yaml_add_stages returned is written
WriteTravisYaml ==
    /\ main_pc = "add_stages"
    /\ pc = "done"
    /\ travis_yml' = [yaml |-> TRUE, doc |-> travis_dict]
    /\ main_pc' = "done"
    /\ UNCHANGED <<raised, python_upstream, node_upstream, fetched, generated,
                   travis_yml_start>>
    /\ UNCHANGED <<callVars, readVars>>

NextMain ==
    \/ GetRepoVersion
    \/ GetRepoVersionFails
    \/ FetchRepo
    \/ FetchRepoFails
    \/ GenerateDockerfile
    \/ LoadTravisYaml
    \/ ReadDockerfile
    \/ SortDockerfiles
    \/ GroupOffsets
    \/ InstallStages
    \/ RaiseFromAddStages
    \/ WriteTravisYaml

SpecMain == InitMain /\ [][NextMain]_vars

\* ---------------------------------------------------------------------- C6
\* C6 as claimed: a run that was aborted has written no Dockerfile under
\* dockerfiles/ and has left .travis.yml as it was, and a run that was not
\* ends with every Dockerfile and .travis.yml written
C6_NoOutputWhenAborted ==
    /\ main_pc = "aborted" => generated = <<>> /\ travis_yml = travis_yml_start
    /\ main_pc = "done" =>
         /\ Len(generated) = Pairs
         /\ HasKey(travis_yml.doc, "jobs")
         /\ Len(Included(travis_yml.doc)) > 0 \/ Pairs = 0

====
